---------------------------- MODULE Spec2Model ----------------------------
(***************************************************************************)
(* A model of PlexCollectionCreator:                                       *)
(*   - plex_manager.py      PlexManager.find_movies, add_to_collection,    *)
(*                          _set_tmdb_image, set_tmdb_poster, set_tmdb_art *)
(*   - select_tmdb_poster.py select_library, select_item, _select_image    *)
(*   - tmdb_search.py       TMDbSearch.search_movies,                      *)
(*                          get_movies_from_collection (lru_cache)         *)
(*                                                                         *)
(* Strings are sequences of one-character strings, so that the regular     *)
(* expression of find_movies, the slice release_date[:4] and the f-string  *)
(* concatenations are computed and not assumed.  Python's None is the      *)
(* empty tuple <<>> wherever a value is optional (an optional year y is    *)
(* <<>> or <<y>>).                                                         *)
(***************************************************************************)
EXTENDS Integers, Sequences, FiniteSets, TLC

VARIABLES
    \* ---- PlexManager.find_movies
    titles,      \* the argument `titles`: a sequence of query strings
    library,     \* the library handle: what library.search answers
    fut,         \* the futures of executor.map, one per title
    yielded,     \* the indices the map generator has yielded, in order
    matched,     \* the local list `matched`
    fpc,         \* "idle" | "mapping" | "returned" | "raised"
    overtook,    \* history: some search completed before an earlier one
    \* ---- the media server, as the artwork selectors see it
    section,     \* library.all(): the top-level items, in order
    nseasons,    \* the number of seasons of the show
    assets,      \* per artwork field: the providers of the offered assets
    srv,         \* per artwork field: the selected asset (0: none), the lock
    \* ---- the last artwork call and what it did
    call,        \* the operation and its arguments (op = "none": no call yet)
    pre,         \* srv before the call
    runs,        \* the runs of the decision rule the call made, in order
    raised,      \* the call ended with an exception
    rep,         \* the call repeated the arguments of the call before it,
                 \* which had completed with every server call succeeding
    \* ---- PlexManager.add_to_collection
    items,       \* the argument `items`: (title, media) pairs
    broken,      \* the media whose addCollection raises
    members,     \* the media in the collection
    reported,    \* the titles printed as added
    cpc,         \* "idle" | "returned" | "raised"
    \* ---- TMDbSearch
    remote,      \* what the metadata database holds: a list of movies
    cache_s,     \* the lru_cache of search_movies, least recently used first
    cache_c,     \* the lru_cache of get_movies_from_collection
    queries_s,   \* per argument list: the queries search_movies issued
    queries_c,   \* the same, of get_movies_from_collection
    last         \* the last facade call and what it returned

findVars == <<titles, library, fut, yielded, matched, fpc, overtook>>

artVars == <<section, nseasons, assets, srv, call, pre, runs, raised, rep>>

collVars == <<items, broken, members, reported, cpc>>

tmdbVars == <<remote, cache_s, cache_c, queries_s, queries_c, last>>

vars == <<findVars, artVars, collVars, tmdbVars>>

None == <<>>

Some(x) == <<x>>

SeqsUpTo(S, n) == UNION {[1..k -> S] : k \in 0..n}

Abs(x) == IF x < 0 THEN -x ELSE x

(***************************************************************************)
(* Bounds of the model.                                                    *)
(***************************************************************************)
MaxTitles == 6

MaxResults == 2

MaxAssets == 2

MaxSeasons == 2

MaxItems == 3

MaxHits == 2

MaxQueries == 3

(***************************************************************************)
(* plex_manager.py: find_movies                                            *)
(***************************************************************************)

\* ThreadPoolExecutor(max_workers=5)
max_workers == 5

\* the characters \d matches among the characters of the model
Digits == {"0", "1", "2", "9"}

DigitVal(c) ==
    CASE c = "0" -> 0
      [] c = "1" -> 1
      [] c = "2" -> 2
      [] c = "9" -> 9

\* int(match.group(2)) of four digits
int4(d) == 1000 * DigitVal(d[1]) + 100 * DigitVal(d[2])
           + 10 * DigitVal(d[3]) + DigitVal(d[4])

\* The subject re.match sees its end at: `$` (no MULTILINE) matches at the
\* end of the string and also just before a newline that ends the string.
BeforeFinalNewline(s) ==
    IF Len(s) > 0 /\ s[Len(s)] = "\n" THEN SubSeq(s, 1, Len(s) - 1) ELSE s

\* re.match(r"^(.*?) \((\d{4})\)$", title_query): None, or the groups.
\* The suffix " (dddd)" has a fixed length and is anchored at the end, so
\* the lazy group 1 is everything before it; `.` does not match a newline.
re_match(title_query) ==
    LET b == BeforeFinalNewline(title_query)
        n == Len(b)
    IN  IF /\ n >= 7
           /\ b[n - 6] = " "
           /\ b[n - 5] = "("
           /\ \A k \in (n - 4)..(n - 1) : b[k] \in Digits
           /\ b[n] = ")"
           /\ \A k \in 1..(n - 7) : b[k] # "\n"
        THEN Some([g1 |-> SubSeq(b, 1, n - 7), g2 |-> SubSeq(b, n - 4, n - 1)])
        ELSE None

\* what a call gives: a value, or an exception
Returns(v) == [raised |-> FALSE, val |-> v]

Raises == [raised |-> TRUE, val |-> None]

\* library.search(clean_title): the results, or an exception
search(lib, clean_title) ==
    IF clean_title \in lib.down THEN Raises
    ELSE IF clean_title \in DOMAIN lib.hits THEN Returns(lib.hits[clean_title])
    ELSE Returns(<<>>)

\* `res.year and abs(res.year - year) <= 1`: None and 0 are falsy
year_ok(res, year) ==
    /\ res.year # None
    /\ res.year[1] # 0
    /\ Abs(res.year[1] - year) <= 1

\* `if year:` of search_and_match: None and 0 are falsy
year_given(year) == year # None /\ year[1] # 0

\* search_and_match(title_query) returns None or the pair
\* <<title_query, res>>, or raises what library.search raised
search_and_match(lib, title_query) ==
    LET m == re_match(title_query)
        clean_title == IF m # None THEN m[1].g1 ELSE title_query
        year == IF m # None THEN Some(int4(m[1].g2)) ELSE None
        got == search(lib, clean_title)
        results == got.val
    IN  IF got.raised THEN Raises
        ELSE IF results # <<>>
        THEN IF year_given(year)
             THEN LET ok == {i \in 1..Len(results) : year_ok(results[i], year[1])}
                  IN  IF ok = {} THEN Returns(None)
                      ELSE Returns(<<title_query,
                             results[CHOOSE i \in ok : \A j \in ok : i <= j]>>)
             ELSE Returns(<<title_query, results[1]>>)
        ELSE Returns(None)

\* a variant that yields results in the order of completion, as
\* concurrent.futures.as_completed would
map_next_as_completed(f, y) ==
    {i \in 1..Len(f) : f[i].st \in {"done", "failed"}
                       /\ \A k \in 1..Len(y) : y[k] # i}

\* The indices executor.map may yield next: results come in the order of
\* submission, each as soon as its future is done.
map_next(f, y) ==
    IF Len(y) < Len(f) /\ f[Len(y) + 1].st \in {"done", "failed"}
    THEN {Len(y) + 1}
    ELSE {}

Running(f) == {i \in 1..Len(f) : f[i].st = "running"}

Queued(f) == {i \in 1..Len(f) : f[i].st = "queued"}

\* ---- the inputs of the model
Str_X == <<"X">>

Str_Y == <<"Y">>

Str_E == <<"E">>

WithYear(t, d) == t \o <<" ", "(">> \o d \o <<")">>

\* The queries: without a year; with a year; year 0000 and 0001; three digits
\* only; a trailing newline; no blank before the parenthesis; an empty
\* title; a title whose search fails.
Queries ==
    { Str_X,
      WithYear(Str_X, <<"2", "0", "2", "0">>),
      WithYear(Str_X, <<"0", "0", "0", "0">>),
      WithYear(Str_X, <<"0", "0", "0", "1">>),
      WithYear(Str_X, <<"2", "0", "2">>),
      WithYear(Str_X, <<"2", "0", "2", "0">>) \o <<"\n">>,
      <<"X", "(", "2", "0", "2", "0", ")">>,
      WithYear(<<>>, <<"2", "0", "2", "0">>),
      WithYear(Str_E, <<"2", "0", "2", "0">>),
      Str_Y }

Years == {None, Some(0), Some(1), Some(2), Some(2019), Some(2021), Some(2022)}

\* the result lists of a search: the item at position k has key k
ResultLists ==
    {[k \in 1..Len(ys) |-> [key |-> k, year |-> ys[k]]] :
        ys \in SeqsUpTo(Years, MaxResults)}

PoolQueries == {Str_X, WithYear(Str_X, <<"2", "0", "2", "0">>), Str_Y}

PoolLibrary ==
    [hits |-> (Str_X :> <<[key |-> 1, year |-> Some(2021)]>>), down |-> {}]

InitFind ==
    /\ \/ /\ titles \in SeqsUpTo(PoolQueries, MaxTitles)
          /\ library = PoolLibrary
       \/ /\ titles \in {<<q>> : q \in Queries}
          /\ \E rs \in ResultLists :
                library = [hits |-> (Str_X :> rs @@ <<>> :> rs), down |-> {Str_E}]
    /\ fut = <<>>
    /\ yielded = <<>>
    /\ matched = <<>>
    /\ fpc = "idle"
    /\ overtook = FALSE

IdleFind ==
    /\ titles = <<>>
    /\ library = [hits |-> <<>>, down |-> {}]
    /\ fut = <<>>
    /\ yielded = <<>>
    /\ matched = <<>>
    /\ fpc = "off"
    /\ overtook = FALSE

\* find_movies is called: executor.map submits every title at once
Submit ==
    /\ fpc = "idle"
    /\ fut' = [i \in 1..Len(titles) |-> [st |-> "queued", val |-> None]]
    /\ fpc' = "mapping"
    /\ UNCHANGED <<titles, library, yielded, matched, overtook, artVars, collVars, tmdbVars>>

\* a free worker thread takes the oldest queued task
StartSearch ==
    /\ fpc = "mapping"
    /\ Queued(fut) # {}
    /\ Cardinality(Running(fut)) < max_workers
    /\ LET i == CHOOSE i \in Queued(fut) : \A j \in Queued(fut) : i <= j
       IN  fut' = [fut EXCEPT ![i].st = "running"]
    /\ UNCHANGED <<titles, library, yielded, matched, fpc, overtook, artVars, collVars, tmdbVars>>

\* a running search_and_match returns or raises
FinishSearch ==
    /\ fpc = "mapping"
    /\ \E i \in Running(fut) :
          LET r == search_and_match(library, titles[i])
          IN  /\ fut' = [fut EXCEPT ![i] =
                            IF r.raised THEN [st |-> "failed", val |-> None]
                            ELSE [st |-> "done", val |-> r.val]]
              /\ overtook' = (overtook \/ \E j \in 1..(i - 1) : fut[j].st = "running")
    /\ UNCHANGED <<titles, library, yielded, matched, fpc, artVars, collVars, tmdbVars>>

\* `for result in executor.map(...)`: the next result is yielded; a failed
\* future re-raises its exception out of find_movies
Collect ==
    /\ fpc = "mapping"
    /\ \E i \in map_next(fut, yielded) :
          /\ yielded' = Append(yielded, i)
          /\ IF fut[i].st = "failed"
             THEN /\ fpc' = "raised"
                  /\ matched' = matched
             ELSE /\ fpc' = fpc
                  /\ matched' = IF fut[i].val # None
                                THEN Append(matched, fut[i].val)
                                ELSE matched
    /\ UNCHANGED <<titles, library, fut, overtook, artVars, collVars, tmdbVars>>

\* the generator is exhausted: `return matched`
ReturnMatched ==
    /\ fpc = "mapping"
    /\ Len(yielded) = Len(titles)
    /\ fpc' = "returned"
    /\ UNCHANGED <<titles, library, fut, yielded, matched, overtook, artVars, collVars, tmdbVars>>

NextFind ==
    \/ Submit
    \/ StartSearch
    \/ FinishSearch
    \/ Collect
    \/ ReturnMatched

(***************************************************************************)
(* plex_manager.py and select_tmdb_poster.py: artwork selection            *)
(***************************************************************************)

\* select_tmdb_poster.py: REPLACE_PROVIDERS = ['gracenote', 'plex', None];
\* the provider None of an asset is the string "None"
NoProvider == "None"

REPLACE_PROVIDERS == {"gracenote", "plex", NoProvider}

PREFERRED_POSTER_PROVIDER == "tmdb"

PREFERRED_ART_PROVIDER == "tmdb"

\* the providers of the assets of the model, and the preferred providers
\* the command line is given
AssetProviders == {"tmdb", "gracenote", "tvdb"}

\* ---- the server
Movie == <<"M", 0>>

Show == <<"S", 0>>

Season(k) == <<"S", k>>

\* item.type
type(t) == IF t[2] > 0 THEN "season" ELSE IF t[1] = "S" THEN "show" ELSE "movie"

\* the artwork field `f` ("thumb", "art") of item or season t
slot(t, f) == <<t[1], t[2], f>>

\* asset.select(): the asset becomes the selected one of its field, and
\* selecting locks the field
select(st, s, k) ==
    [sel |-> [st.sel EXCEPT ![s] = k], locked |-> [st.locked EXCEPT ![s] = TRUE]]

\* a server call that fails: at most one (item, field, operation) per call
NoFault == <<>>

Fault(t, f, op) == <<[t |-> t, f |-> f, op |-> op]>>

fails(fault, t, f, op) == fault = Fault(t, f, op)

\* ---- one run of the decision rule: what it was run on, the signals it
\* printed, the assets it called select() on, whether it raised
Run(t, f, kind, il, prov, sigs, selects, exc) ==
    [t |-> t, f |-> f, kind |-> kind, il |-> il, prov |-> prov,
     sigs |-> sigs, selects |-> selects, raised |-> exc]

Out(st, run) == [st |-> st, run |-> run]

\* next((a for a in assets if a.provider == provider), None): the index of
\* the first asset of the provider, 0 for None
first_of_provider(avail, provider) ==
    LET ks == {k \in 1..Len(avail) : avail[k] = provider}
    IN  IF ks = {} THEN 0 ELSE CHOOSE k \in ks : \A j \in ks : k <= j

\* ---- plex_manager.py

\* a variant with the test of include_locked inverted
pm_locked_skip_inverted(is_locked, include_locked) == is_locked /\ include_locked

\* `item.isLocked(field) and not include_locked`
pm_locked_skip(is_locked, include_locked) == is_locked /\ ~include_locked

\* a variant that takes the first asset, whatever its provider
tmdb_asset_first_any(avail) == IF Len(avail) > 0 THEN 1 ELSE 0

\* tmdb_asset = next((a for a in assets if a.provider == 'tmdb'), None)
tmdb_asset(avail) == first_of_provider(avail, "tmdb")

\* PlexManager._set_tmdb_image(item, image_type, include_locked): every
\* exception is caught and printed
set_tmdb_image(st, t, image_type, il, fault) ==
    LET field == IF image_type = "poster" THEN "thumb" ELSE "art"
        s == slot(t, field)
        R(sigs, selects) == Run(t, field, image_type, il, "tmdb", sigs, selects, FALSE)
    IN  IF fails(fault, t, field, "isLocked")
        THEN Out(st, R(<<"error">>, <<>>))
        ELSE IF pm_locked_skip(st.locked[s], il)
        THEN Out(st, R(<<"locked_skip">>, <<>>))
        ELSE IF fails(fault, t, field, "assets")
        THEN Out(st, R(<<"error">>, <<>>))
        ELSE IF assets[s] = <<>>
        THEN Out(st, R(<<"no_assets">>, <<>>))
        ELSE LET k == tmdb_asset(assets[s])
             IN  IF k # 0
                 THEN IF fails(fault, t, field, "select")
                      THEN Out(st, R(<<"error">>, <<k>>))
                      ELSE Out(select(st, s, k), R(<<"selected">>, <<k>>))
                 ELSE Out(st, R(<<"no_tmdb">>, <<>>))

\* what a call has done so far
Acc(st, rs, exc) == [st |-> st, runs |-> rs, raised |-> exc]

\* the next statement of a call, which an exception before it skips
Then(acc, out) ==
    IF acc.raised THEN acc
    ELSE Acc(out.st, Append(acc.runs, out.run), out.run.raised)

\* an exception between two runs of the rule
Throw(acc) == Acc(acc.st, acc.runs, TRUE)

RECURSIVE for_seasons(_, _, _, _)
\* `for season in item.seasons(): self._set_tmdb_image(season, 'poster', ...)`
for_seasons(acc, k, il, fault) ==
    IF k > nseasons \/ acc.raised THEN acc
    ELSE for_seasons(Then(acc, set_tmdb_image(acc.st, Season(k), "poster", il, fault)),
                     k + 1, il, fault)

\* a variant that never processes the seasons
poster_with_seasons_never(t) == FALSE

\* `if item.type == 'show'`: the items whose seasons set_tmdb_poster
\* processes too
poster_with_seasons(t) == type(t) = "show"

\* PlexManager.set_tmdb_poster(item, include_locked): item.seasons() is
\* called outside any try
set_tmdb_poster(st, t, il, fault) ==
    LET first == Then(Acc(st, <<>>, FALSE), set_tmdb_image(st, t, "poster", il, fault))
    IN  IF poster_with_seasons(t)
        THEN IF fails(fault, t, "-", "seasons") THEN Throw(first)
             ELSE for_seasons(first, 1, il, fault)
        ELSE first

\* PlexManager.set_tmdb_art(item, include_locked)
set_tmdb_art(st, t, il, fault) ==
    Then(Acc(st, <<>>, FALSE), set_tmdb_image(st, t, "background", il, fault))

\* ---- select_tmdb_poster.py

\* `item.isLocked(lock_tag) and not include_locked`
si_locked_skip(is_locked, include_locked) == is_locked /\ ~include_locked

\* a variant that replaces whatever is selected
replace_always(images, selected) == images # <<>>

\* `images and (selected_image is None or
\*              selected_image.provider in REPLACE_PROVIDERS)`;
\* selected is the index of the selected image, 0 for None
replace(images, selected) ==
    /\ images # <<>>
    /\ (selected = 0 \/ images[selected] \in REPLACE_PROVIDERS)

\* provider_image = next((p for p in images if p.provider == provider),
\*                       images[0])
provider_image(images, provider) ==
    LET k == first_of_provider(images, provider)
    IN  IF k # 0 THEN k ELSE 1

\* _select_image(item, kind, lock_tag, include_locked, provider): nothing
\* is caught
select_image(st, t, kind, lock_tag, il, provider, fault) ==
    LET s == slot(t, lock_tag)
        R(sigs, selects, exc) == Run(t, lock_tag, kind, il, provider, sigs, selects, exc)
        images == assets[s]
        selected == st.sel[s]
        told == IF selected = 0 THEN <<"checking", "none_selected">>
                ELSE IF images[selected] \notin REPLACE_PROVIDERS
                THEN <<"checking", "provider_is_skipping">>
                ELSE <<"checking", "provider_is">>
    IN  IF fails(fault, t, lock_tag, "isLocked")
        THEN Out(st, R(<<"checking">>, <<>>, TRUE))
        ELSE IF si_locked_skip(st.locked[s], il)
        THEN Out(st, R(<<"checking", "locked_skip">>, <<>>, FALSE))
        ELSE IF fails(fault, t, lock_tag, "assets")
        THEN Out(st, R(<<"checking">>, <<>>, TRUE))
        ELSE IF replace(images, selected)
        THEN LET k == provider_image(images, provider)
             IN  IF fails(fault, t, lock_tag, "select")
                 THEN Out(st, R(told, <<k>>, TRUE))
                 ELSE Out(select(st, s, k), R(Append(told, "selected"), <<k>>, FALSE))
        ELSE Out(st, R(told, <<>>, FALSE))

\* select_poster / select_art
select_poster(st, t, il, provider, fault) ==
    select_image(st, t, "poster", "thumb", il, provider, fault)

select_art(st, t, il, provider, fault) ==
    select_image(st, t, "art", "art", il, provider, fault)

\* select_item(item, include_locked, poster, poster_provider, art,
\*             art_provider), continuing what a library run has done
select_item(acc, t, il, poster, pp, art, ap, fault) ==
    LET a1 == IF poster THEN Then(acc, select_poster(acc.st, t, il, pp, fault)) ELSE acc
    IN  IF art /\ ~a1.raised THEN Then(a1, select_art(a1.st, t, il, ap, fault)) ELSE a1

RECURSIVE for_items(_, _, _, _, _, _, _, _)
\* `for item in library.all(...): item.reload(...); select_item(item, ...)`
for_items(acc, i, il, poster, pp, art, ap, fault) ==
    IF i > Len(section) \/ acc.raised THEN acc
    ELSE IF fails(fault, section[i], "-", "reload") THEN Throw(acc)
    ELSE for_items(select_item(acc, section[i], il, poster, pp, art, ap, fault),
                   i + 1, il, poster, pp, art, ap, fault)

\* select_library(library, include_locked, poster, poster_provider, art,
\*                art_provider)
select_library(st, il, poster, pp, art, ap, fault) ==
    for_items(Acc(st, <<>>, FALSE), 1, il, poster, pp, art, ap, fault)

\* ---- the calls
Call(op, t, il, poster, pp, art, ap, fault) ==
    [op |-> op, t |-> t, il |-> il, poster |-> poster, pp |-> pp,
     art |-> art, ap |-> ap, fault |-> fault]

NoCall == Call("none", Movie, FALSE, FALSE, "tmdb", FALSE, "tmdb", NoFault)

SameArguments(c, d) ==
    /\ c.op = d.op /\ c.t = d.t /\ c.il = d.il
    /\ c.poster = d.poster /\ c.pp = d.pp /\ c.art = d.art /\ c.ap = d.ap

\* the call c ran from srv and ended as acc
Commit(c, acc) ==
    /\ call' = c
    /\ pre' = srv
    /\ srv' = acc.st
    /\ runs' = acc.runs
    /\ raised' = acc.raised
    /\ rep' = (~raised /\ call.fault = NoFault /\ SameArguments(call, c))
    /\ UNCHANGED <<section, nseasons, assets, findVars, collVars, tmdbVars>>

Items == {section[i] : i \in 1..Len(section)}

Seasons(t) == IF type(t) = "show" THEN {Season(k) : k \in 1..nseasons} ELSE {}

\* the server calls of a run of the rule on the fields fs of the items ts
RuleOps == {"isLocked", "assets", "select"}

RuleFaults(ts, fs) == {Fault(t, f, op) : t \in ts, f \in fs, op \in RuleOps}

\* the fields the flags poster and art have processed
Fields(poster, art) ==
    (IF poster THEN {"thumb"} ELSE {}) \cup (IF art THEN {"art"} ELSE {})

\* set_tmdb_poster(item, include_locked) is called; a server call may fail
SetTmdbPoster ==
    \E t \in Items, il \in BOOLEAN :
      \E fault \in {NoFault} \cup RuleFaults({t} \cup Seasons(t), {"thumb"})
                    \cup {Fault(x, "-", "seasons") : x \in {t} \cap {Show}} :
        Commit(Call("set_tmdb_poster", t, il, TRUE, "tmdb", FALSE, "tmdb", fault),
               set_tmdb_poster(srv, t, il, fault))

\* set_tmdb_art(item, include_locked) is called
SetTmdbArt ==
    \E t \in Items, il \in BOOLEAN :
      \E fault \in {NoFault} \cup RuleFaults({t}, {"art"}) :
        Commit(Call("set_tmdb_art", t, il, FALSE, "tmdb", TRUE, "tmdb", fault),
               set_tmdb_art(srv, t, il, fault))

\* the flags --poster and --art, one at least
Flags == {<<TRUE, FALSE>>, <<FALSE, TRUE>>, <<TRUE, TRUE>>}

\* select_item is called (--rating_key) with flags of FL and a preferred
\* poster provider of PP
SelectItem(FL, PP) ==
    \E t \in Items, il \in BOOLEAN, fl \in FL, pp \in PP :
      \E fault \in {NoFault} \cup RuleFaults({t}, Fields(fl[1], fl[2])) :
        Commit(Call("select_item", t, il, fl[1], pp, fl[2], PREFERRED_ART_PROVIDER, fault),
               select_item(Acc(srv, <<>>, FALSE), t, il, fl[1], pp, fl[2],
                           PREFERRED_ART_PROVIDER, fault))

\* select_library is called (--library)
SelectLibrary(FL, PP) ==
    \E il \in BOOLEAN, fl \in FL, pp \in PP :
      \E fault \in {NoFault} \cup RuleFaults(Items, Fields(fl[1], fl[2]))
                    \cup {Fault(t, "-", "reload") : t \in Items} :
        Commit(Call("select_library", Movie, il, fl[1], pp, fl[2], PREFERRED_ART_PROVIDER, fault),
               select_library(srv, il, fl[1], pp, fl[2], PREFERRED_ART_PROVIDER, fault))

\* ---- the servers of the model
FieldConfigs ==
    {[assets |-> a, sel |-> k, locked |-> b] :
        a \in SeqsUpTo(AssetProviders, MaxAssets), k \in 0..MaxAssets, b \in BOOLEAN}

ArtConfig == [assets |-> <<"gracenote", "tmdb">>, sel |-> 1, locked |-> FALSE]

SmallConfigs ==
    { [assets |-> <<"gracenote", "tmdb">>, sel |-> 1, locked |-> FALSE],
      [assets |-> <<"tmdb">>, sel |-> 1, locked |-> TRUE] }

\* the server whose fields are configured by cfg (a function on the slots)
Server(cfg) ==
    /\ assets = [s \in DOMAIN cfg |-> cfg[s].assets]
    /\ srv = [sel |-> [s \in DOMAIN cfg |-> cfg[s].sel],
              locked |-> [s \in DOMAIN cfg |-> cfg[s].locked]]

NoCallYet ==
    /\ call = NoCall
    /\ pre = srv
    /\ runs = <<>>
    /\ raised = FALSE
    /\ rep = FALSE

\* one movie, every configuration of its poster field
InitRule ==
    /\ section = <<Movie>>
    /\ nseasons = 0
    /\ \E th \in {c \in FieldConfigs : c.sel <= Len(c.assets)} :
          Server(slot(Movie, "thumb") :> th @@ slot(Movie, "art") :> ArtConfig)
    /\ NoCallYet

\* a movie and a show with its seasons; posters vary, backgrounds do not
InitShow ==
    /\ section = <<Movie, Show>>
    /\ nseasons \in 0..MaxSeasons
    /\ \E mt \in SmallConfigs, st \in SmallConfigs, se \in SmallConfigs :
          Server(slot(Movie, "thumb") :> mt @@ slot(Movie, "art") :> ArtConfig
                 @@ slot(Show, "thumb") :> st @@ slot(Show, "art") :> ArtConfig
                 @@ [s \in {slot(Season(k), "thumb") : k \in 1..nseasons} |-> se])
    /\ NoCallYet

\* a library of a movie and a show
InitLib ==
    /\ section = <<Movie, Show>>
    /\ nseasons \in 0..MaxSeasons
    /\ \E c \in SmallConfigs :
          Server([s \in {slot(t, f) : t \in {Movie, Show}, f \in {"thumb", "art"}}
                        \cup {slot(Season(k), "thumb") : k \in 1..nseasons} |-> c])
    /\ NoCallYet

IdleArt ==
    /\ section = <<>>
    /\ nseasons = 0
    /\ assets = <<>>
    /\ srv = [sel |-> <<>>, locked |-> <<>>]
    /\ NoCallYet

NextRule ==
    \/ SetTmdbPoster
    \/ SetTmdbArt
    \/ SelectItem({<<TRUE, FALSE>>, <<TRUE, TRUE>>}, {"tmdb", "gracenote"})

NextShow ==
    \/ SetTmdbPoster
    \/ SetTmdbArt

NextLib ==
    \/ SetTmdbPoster
    \/ SetTmdbArt
    \/ SelectItem(Flags, {PREFERRED_POSTER_PROVIDER})
    \/ SelectLibrary(Flags, {PREFERRED_POSTER_PROVIDER})

(***************************************************************************)
(* plex_manager.py: add_to_collection                                      *)
(***************************************************************************)

Media == {"A", "B", "C"}

RECURSIVE add_to_collection(_, _, _)
\* `for title, media in items: media.addCollection(collection_name);
\*  print(...)`: nothing is caught, so the first failure ends the loop
add_to_collection(its, mem, rep_) ==
    IF Len(its) = 0 THEN [members |-> mem, reported |-> rep_, raised |-> FALSE]
    ELSE IF Head(its)[2] \in broken
    THEN [members |-> mem, reported |-> rep_, raised |-> TRUE]
    ELSE add_to_collection(Tail(its), mem \cup {Head(its)[2]},
                           Append(rep_, Head(its)[1]))

InitCollect ==
    /\ items \in SeqsUpTo({<<m, m>> : m \in Media}, MaxItems)
    /\ broken \in SUBSET Media
    /\ members = {}
    /\ reported = <<>>
    /\ cpc = "idle"

IdleCollect ==
    /\ items = <<>>
    /\ broken = {}
    /\ members = {}
    /\ reported = <<>>
    /\ cpc = "off"

\* add_to_collection(items, collection_name) is called
AddToCollection ==
    /\ cpc = "idle"
    /\ \E r \in {add_to_collection(items, members, reported)} :
          /\ members' = r.members
          /\ reported' = r.reported
          /\ cpc' = IF r.raised THEN "raised" ELSE "returned"
    /\ UNCHANGED <<items, broken, findVars, artVars, tmdbVars>>

NextCollect == AddToCollection

(***************************************************************************)
(* tmdb_search.py: TMDbSearch                                              *)
(***************************************************************************)

\* @lru_cache(maxsize=128) of search_movies, @lru_cache(maxsize=32) of
\* get_movies_from_collection
search_maxsize == 128

collection_maxsize == 32

\* def search_movies(self, keyword, limit=10)
default_limit == 10

\* ---- functools.lru_cache: a cache is a sequence of entries, the least
\* recently used first
cache_index(cache, key) ==
    LET ks == {i \in 1..Len(cache) : cache[i].key = key}
    IN  IF ks = {} THEN 0 ELSE CHOOSE i \in ks : TRUE

Without(cache, i) == SubSeq(cache, 1, i - 1) \o SubSeq(cache, i + 1, Len(cache))

\* a hit makes the entry the most recently used
cache_touch(cache, i) == Append(Without(cache, i), cache[i])

\* a miss stores what the function returned, whatever it is, and evicts the
\* least recently used entry of a full cache
cache_store(cache, entry, maxsize) ==
    IF Len(cache) >= maxsize THEN Append(Tail(cache), entry)
    ELSE Append(cache, entry)

\* ---- the formatting.  A movie is [title, release_date], each None or
\* Some(string)
Take(str, n) == SubSeq(str, 1, IF Len(str) < n THEN Len(str) ELSE n)

\* f"{title} ({date[:4]})"
with_year(title, date) == title \o <<" ", "(">> \o Take(date, 4) \o <<")">>

\* search_movies, lines 26-28: the year is appended when release_date is
\* there and truthy (not None, not "")
search_title(movie) ==
    IF movie.release_date # None /\ movie.release_date[1] # <<>>
    THEN with_year(movie.title[1], movie.release_date[1])
    ELSE movie.title[1]

\* get_movies_from_collection, lines 50-53: the year is appended when the
\* date is truthy and at least 4 characters long
collection_title(movie) ==
    IF /\ movie.release_date # None
       /\ movie.release_date[1] # <<>>
       /\ Len(movie.release_date[1]) >= 4
    THEN with_year(movie.title[1], movie.release_date[1])
    ELSE movie.title[1]

RECURSIVE titled_movies(_, _, _)
\* the loop of search_movies over `results`, with `count` entries so far:
\* the movies that give an entry.  A movie with a title attribute gives
\* one, and the loop breaks once count >= limit
titled_movies(results, count, limit) ==
    IF Len(results) = 0 THEN <<>>
    ELSE LET movie == Head(results)
             has == movie.title # None
             c == IF has THEN count + 1 ELSE count
         IN  (IF has THEN <<movie>> ELSE <<>>)
             \o (IF c >= limit THEN <<>> ELSE titled_movies(Tail(results), c, limit))

\* the loop of get_movies_from_collection over result.get("parts", []):
\* the parts that give an entry, those with a truthy title
titled_parts(parts) ==
    SelectSeq(parts, LAMBDA movie : movie.title # None /\ movie.title[1] # <<>>)

\* the limit of a call search_movies(*args): args is <<keyword>> or
\* <<keyword, limit>>
limit_of(args) == IF Len(args) >= 2 THEN args[2] ELSE default_limit

\* search_movies(*args) when the cache misses: the query fails (caught,
\* [] returned) or its results are formatted
search_movies(args, fail) ==
    IF fail THEN <<>>
    ELSE LET ms == titled_movies(remote, 0, limit_of(args))
         IN  [i \in 1..Len(ms) |-> search_title(ms[i])]

\* get_movies_from_collection(collection_id) when the cache misses
get_movies_from_collection(args, fail) ==
    IF fail THEN <<>>
    ELSE LET ms == titled_parts(remote)
         IN  [i \in 1..Len(ms) |-> collection_title(ms[i])]

\* ---- the inputs of the model
Str_D == <<"D">>

TitleValues == {None, Some(<<>>), Some(Str_D)}

DateValues ==
    { None, Some(<<>>), Some(<<"2", "0", "2">>), Some(<<"2", "0", "2", "1">>),
      Some(<<"2", "0", "2", "1", "-", "1">>) }

Movies == {[title |-> t, release_date |-> d] : t \in TitleValues, d \in DateValues}

PlainMovies ==
    { [title |-> Some(Str_D), release_date |-> Some(<<"2", "0", "2", "1", "-", "1">>)],
      [title |-> Some(Str_D), release_date |-> None] }

SearchArgs == {<<"dune">>, <<"dune", 1>>, <<"alien">>}

CollectionArgs == {<<1>>, <<2>>}

NoFacadeCall == [fn |-> "none", args |-> <<>>, hit |-> FALSE, failed |-> FALSE, ret |-> <<>>]

InitTmdb ==
    /\ remote \in SeqsUpTo(Movies, 1) \cup SeqsUpTo(PlainMovies, MaxHits)
    /\ cache_s = <<>>
    /\ cache_c = <<>>
    /\ queries_s = [k \in SearchArgs |-> 0]
    /\ queries_c = [k \in CollectionArgs |-> 0]
    /\ last = NoFacadeCall

IdleTmdb ==
    /\ remote = <<>>
    /\ cache_s = <<>>
    /\ cache_c = <<>>
    /\ queries_s = <<>>
    /\ queries_c = <<>>
    /\ last = NoFacadeCall

\* a variant without the decorator: every call runs the method
NotMemoized(fn, args, cache, maxsize, val, fail) ==
    [cache |-> cache, issued |-> 1,
     last |-> [fn |-> fn, args |-> args, hit |-> FALSE, failed |-> fail, ret |-> val]]

\* a call of a memoized method: a hit returns the cached value, a miss runs
\* the method, whose query may fail, and stores what it returned
Memoized(fn, args, cache, maxsize, val, fail) ==
    LET i == cache_index(cache, args)
    IN  IF i # 0
        THEN [cache |-> cache_touch(cache, i), issued |-> 0,
              last |-> [fn |-> fn, args |-> args, hit |-> TRUE,
                        failed |-> cache[i].failed, ret |-> cache[i].val]]
        ELSE [cache |-> cache_store(cache, [key |-> args, val |-> val, failed |-> fail],
                                    maxsize),
              issued |-> 1,
              last |-> [fn |-> fn, args |-> args, hit |-> FALSE,
                        failed |-> fail, ret |-> val]]

SearchMovies ==
    \E args \in SearchArgs, fail \in BOOLEAN :
      /\ queries_s[args] < MaxQueries
      /\ \E r \in {Memoized("search_movies", args, cache_s, search_maxsize,
                            search_movies(args, fail), fail)} :
            /\ cache_s' = r.cache
            /\ queries_s' = [queries_s EXCEPT ![args] = @ + r.issued]
            /\ last' = r.last
      /\ UNCHANGED <<remote, cache_c, queries_c, findVars, artVars, collVars>>

GetMoviesFromCollection ==
    \E args \in CollectionArgs, fail \in BOOLEAN :
      /\ queries_c[args] < MaxQueries
      /\ \E r \in {Memoized("get_movies_from_collection", args, cache_c,
                            collection_maxsize,
                            get_movies_from_collection(args, fail), fail)} :
            /\ cache_c' = r.cache
            /\ queries_c' = [queries_c EXCEPT ![args] = @ + r.issued]
            /\ last' = r.last
      /\ UNCHANGED <<remote, cache_s, queries_s, findVars, artVars, collVars>>

NextTmdb ==
    \/ SearchMovies
    \/ GetMoviesFromCollection

(***************************************************************************)
(* Specifications                                                          *)
(***************************************************************************)

FindInit == InitFind /\ IdleArt /\ IdleCollect /\ IdleTmdb

SpecFind == FindInit /\ [][NextFind]_vars

RuleInit == IdleFind /\ InitRule /\ IdleCollect /\ IdleTmdb

SpecRule == RuleInit /\ [][NextRule]_vars

ShowInit == IdleFind /\ InitShow /\ IdleCollect /\ IdleTmdb

SpecShow == ShowInit /\ [][NextShow]_vars

LibInit == IdleFind /\ InitLib /\ IdleCollect /\ IdleTmdb

SpecLib == LibInit /\ [][NextLib]_vars

CollectInit == IdleFind /\ IdleArt /\ InitCollect /\ IdleTmdb

SpecCollect == CollectInit /\ [][NextCollect]_vars

TmdbInit == IdleFind /\ IdleArt /\ IdleCollect /\ InitTmdb

SpecTmdb == TmdbInit /\ [][NextTmdb]_vars

(***************************************************************************)
(* Claims about find_movies                                                *)
(***************************************************************************)

RECURSIVE MatchedInOrder(_, _)
\* the pairs of the queries that match, in the order of the queries
MatchedInOrder(lib, ts) ==
    IF Len(ts) = 0 THEN <<>>
    ELSE LET r == search_and_match(lib, Head(ts))
         IN  (IF ~r.raised /\ r.val # None THEN <<r.val>> ELSE <<>>)
             \o MatchedInOrder(lib, Tail(ts))

\* C1: whatever the order in which the parallel searches complete, the list
\* find_movies returns holds exactly the (query, item) pairs of the queries
\* that matched, in the order of the input, with no entry for an unmatched
\* query; an empty input gives an empty list.
C1_OrderPreserved ==
    fpc = "returned" =>
        /\ matched = MatchedInOrder(library, titles)
        /\ Len(matched) <= Len(titles)
        /\ (titles = <<>> => matched = <<>>)

\* C1's case: more titles than workers, a later search finished before an
\* earlier one, and some but not all queries matched.
C1_Witness ==
    /\ fpc = "returned"
    /\ Len(titles) > max_workers
    /\ overtook
    /\ Len(matched) > 0
    /\ Len(matched) < Len(titles)

\* the results whose year r satisfies |r - Y| <= 1
Qualifying(results, Y) ==
    {i \in 1..Len(results) :
        results[i].year # None /\ Abs(results[i].year[1] - Y) <= 1}

\* C2: for a query "X (Y)" with any four-digit year Y, 0000 included,
\* find_movies returns an entry only if some result's year r satisfies
\* |r - Y| <= 1, the entry is then the first such result, and no result
\* qualifying means no entry.
C2_YearTolerance ==
    (fpc = "returned" /\ Len(titles) = 1 /\ re_match(titles[1]) # None) =>
        LET m == re_match(titles[1])[1]
            results == search(library, m.g1).val
            q == Qualifying(results, int4(m.g2))
        IN  IF q = {} THEN matched = <<>>
            ELSE matched = << <<titles[1],
                               results[CHOOSE i \in q : \A j \in q : i <= j]>> >>

\* C2 restricted to the years Python takes for true: Y # 0 and no result of
\* year 0 (not a claim: it bounds where the code departs from C2)
C2_NonZeroYears ==
    (/\ fpc = "returned" /\ Len(titles) = 1 /\ re_match(titles[1]) # None
     /\ int4(re_match(titles[1])[1].g2) # 0
     /\ \A i \in 1..Len(search(library, re_match(titles[1])[1].g1).val) :
            search(library, re_match(titles[1])[1].g1).val[i].year # Some(0))
    => C2_YearTolerance

(***************************************************************************)
(* Claims about the artwork selectors                                      *)
(***************************************************************************)

Count(sq, S) == Cardinality({i \in 1..Len(sq) : sq[i] \in S})

SkipSignals == {"locked_skip"}

\* the field offers an asset of the provider
Offers(s, provider) == \E k \in 1..Len(assets[s]) : assets[s][k] = provider

\* the provider of the asset selected in slot s of server state st
SelectedIs(st, s, provider) ==
    st.sel[s] # 0 /\ assets[s][st.sel[s]] = provider

\* a run of the rule that found its field locked, with include_locked false
LockedSkipCase(r) ==
    /\ pre.locked[slot(r.t, r.f)]
    /\ ~r.il
    /\ ~fails(call.fault, r.t, r.f, "isLocked")

\* C3: in both selectors, when the field is locked and include_locked is
\* false, no select call is issued, the selected asset and the lock of the
\* field are unchanged, and the "skipped" signal is emitted exactly once.
C3_LockedSkip ==
    \A i \in 1..Len(runs) :
        LET r == runs[i]
            s == slot(r.t, r.f)
        IN  LockedSkipCase(r) =>
                /\ r.selects = <<>>
                /\ ~r.raised
                /\ srv.sel[s] = pre.sel[s]
                /\ srv.locked[s] = pre.locked[s]
                /\ Count(r.sigs, SkipSignals) = 1
                /\ Count(r.sigs, {"selected", "error"}) = 0

\* C3's case: select_item skipped a locked poster that offers an asset of
\* the preferred provider, then went on to the background
C3_Witness ==
    /\ call.op = "select_item"
    /\ Len(runs) = 2
    /\ LockedSkipCase(runs[1])
    /\ Offers(slot(runs[1].t, runs[1].f), runs[1].prov)
    /\ ~SelectedIs(srv, slot(runs[1].t, runs[1].f), runs[1].prov)

\* the fields a call is to process, those of a failed enumeration or a
\* failed reload left out
Expected(c) ==
    CASE c.op = "set_tmdb_poster" ->
            {slot(c.t, "thumb")}
            \cup (IF c.fault = Fault(c.t, "-", "seasons") THEN {}
                  ELSE {slot(x, "thumb") : x \in Seasons(c.t)})
      [] c.op = "set_tmdb_art" -> {slot(c.t, "art")}
      [] c.op = "select_item" -> {slot(c.t, f) : f \in Fields(c.poster, c.art)}
      [] c.op = "select_library" ->
            {slot(t, f) : t \in {x \in Items : c.fault # Fault(x, "-", "reload")},
                          f \in Fields(c.poster, c.art)}
      [] OTHER -> {}

Processed == {slot(runs[i].t, runs[i].f) : i \in 1..Len(runs)}

\* the field the failing server call belongs to (none for seasons, reload)
FaultSlots(c) == {slot(c.fault[k].t, c.fault[k].f) : k \in 1..Len(c.fault)}

\* C4: a failure while processing one item's artwork is caught and reported
\* for that item; it aborts neither the sibling items of a library run, nor
\* the item's other field, nor the remaining seasons of a show: when a
\* server call fails on one field, every other field the call is to
\* process is still processed.
C4_ErrorIsolation ==
    call.fault # NoFault => Expected(call) \ FaultSlots(call) \subseteq Processed

\* what does hold (not a claim): _set_tmdb_image catches every failure of
\* its own server calls
C4_PlexManagerOnly ==
    (call.op \in {"set_tmdb_poster", "set_tmdb_art"}
     /\ call.fault # Fault(call.t, "-", "seasons"))
    => (~raised /\ Expected(call) \subseteq Processed)

\* C6: set_tmdb_poster runs the rule once on the item and, for a show, once
\* on each of the n seasons its enumeration returns, every run with the
\* call's include_locked; set_tmdb_art runs it once, on the item only.
\* (When item.seasons() itself fails there are no seasons to run on: the
\* rule has run once and the exception leaves set_tmdb_poster.)
C6_ShowPropagation ==
    /\ call.op = "set_tmdb_poster" =>
          /\ raised <=> call.fault = Fault(call.t, "-", "seasons")
          /\ Len(runs) = IF type(call.t) = "show" /\ ~raised THEN nseasons + 1 ELSE 1
          /\ runs[1].t = call.t
          /\ \A k \in 2..Len(runs) : runs[k].t = Season(k - 1)
          /\ \A k \in 1..Len(runs) :
                runs[k].il = call.il /\ runs[k].kind = "poster" /\ runs[k].f = "thumb"
    /\ call.op = "set_tmdb_art" =>
          /\ ~raised
          /\ Len(runs) = 1
          /\ runs[1].t = call.t /\ runs[1].il = call.il
          /\ runs[1].kind = "background" /\ runs[1].f = "art"

\* C6's case: a poster call on the show with all its seasons, at least two
C6_Witness ==
    /\ call.op = "set_tmdb_poster"
    /\ type(call.t) = "show"
    /\ nseasons >= 2
    /\ ~raised
    /\ Len(runs) = nseasons + 1

\* the selection applies to a run: the field is not skipped as locked and,
\* in _select_image, nothing is selected or the selected asset's provider
\* is one to replace
Applies(r) ==
    LET s == slot(r.t, r.f)
    IN  /\ ~(pre.locked[s] /\ ~r.il)
        /\ \/ call.op \in {"set_tmdb_poster", "set_tmdb_art"}
           \/ pre.sel[s] = 0
           \/ assets[s][pre.sel[s]] \in REPLACE_PROVIDERS

VariantRuns ==
    {i \in 1..Len(runs) :
        /\ call.op = "select_item"
        /\ call.fault = NoFault
        /\ ~(pre.locked[slot(runs[i].t, runs[i].f)] /\ ~runs[i].il)}

\* the asset the variant policy falls back to
Fallback(s, provider) ==
    IF Offers(s, provider) THEN first_of_provider(assets[s], provider) ELSE 1

\* C10 as stated: the selected asset already of the preferred provider: no
\* select call; the selected asset of a provider to replace, or none
\* selected: the preferred provider's asset is selected when offered,
\* otherwise the first available asset.
C10_Original ==
    \A i \in VariantRuns :
        LET r == runs[i]
            s == slot(r.t, r.f)
            cur == pre.sel[s]
        IN  /\ (cur # 0 /\ assets[s][cur] = r.prov) => r.selects = <<>>
            /\ (assets[s] # <<>> /\ (cur = 0 \/ assets[s][cur] \in REPLACE_PROVIDERS))
                  => r.selects = <<Fallback(s, r.prov)>>

\* C10 as amended: the selected asset of a provider that is not one of
\* REPLACE_PROVIDERS: no select call; of one of REPLACE_PROVIDERS (the
\* preferred provider included, when it is one of them), or none selected:
\* the preferred provider's first asset is selected when offered, otherwise
\* the first asset; no asset offered: no select call.
C10_VariantPolicy ==
    \A i \in VariantRuns :
        LET r == runs[i]
            s == slot(r.t, r.f)
            cur == pre.sel[s]
        IN  /\ (cur # 0 /\ assets[s][cur] \notin REPLACE_PROVIDERS)
                  => (r.selects = <<>> /\ srv.sel[s] = cur)
            /\ assets[s] = <<>> => r.selects = <<>>
            /\ (assets[s] # <<>> /\ (cur = 0 \/ assets[s][cur] \in REPLACE_PROVIDERS))
                  => /\ r.selects = <<Fallback(s, r.prov)>>
                     /\ srv.sel[s] = Fallback(s, r.prov)
                     /\ srv.locked[s]

\* C10's case: the selected asset is of the preferred provider, which is
\* one of REPLACE_PROVIDERS, and another asset of it comes first
C10_Witness ==
    \E i \in VariantRuns :
        LET r == runs[i]
            s == slot(r.t, r.f)
        IN  /\ pre.sel[s] # 0
            /\ assets[s][pre.sel[s]] = r.prov
            /\ r.selects # <<>>
            /\ srv.sel[s] # pre.sel[s]

(***************************************************************************)
(* Claims about add_to_collection                                          *)
(***************************************************************************)

\* C5: add_to_collection processes every pair of its input: a failure on
\* one item is reported for that item and every remaining item is still
\* added; what was added before the failure stays added.  So, once the call
\* is over, every item whose addCollection does not fail is a member.
C5_ProcessAll ==
    cpc \in {"returned", "raised"} =>
        \A i \in 1..Len(items) : items[i][2] \notin broken => items[i][2] \in members

\* what does hold (not a claim): the items before the first failure are
\* added and reported, and stay so; no item after it is processed
C5_PrefixOnly ==
    cpc # "idle" =>
        LET bad == {i \in 1..Len(items) : items[i][2] \in broken}
            n == IF bad = {} THEN Len(items)
                 ELSE (CHOOSE i \in bad : \A j \in bad : i <= j) - 1
        IN  /\ members = {items[i][2] : i \in 1..n}
            /\ reported = [i \in 1..n |-> items[i][1]]
            /\ (cpc = "raised") <=> (bad # {})

(***************************************************************************)
(* Claims about TMDbSearch                                                 *)
(***************************************************************************)

\* C7: with no more distinct argument lists than the cache holds, the
\* underlying query of search_movies (128) and of
\* get_movies_from_collection (32) is issued at most once per argument
\* list, and exactly once for one that was called, also when the first
\* call failed and returned the empty sequence.
C7_Memoized ==
    (Cardinality(SearchArgs) <= search_maxsize
     /\ Cardinality(CollectionArgs) <= collection_maxsize) =>
        /\ \A k \in SearchArgs : queries_s[k] <= 1
        /\ \A k \in CollectionArgs : queries_c[k] <= 1
        /\ last.fn = "search_movies" => queries_s[last.args] = 1
        /\ last.fn = "get_movies_from_collection" => queries_c[last.args] = 1
        /\ (last.hit /\ last.failed) => last.ret = <<>>

\* C7's case: a call answered from the cache with the empty sequence that a
\* failed first call had returned, while the database holds a movie
C7_Witness ==
    /\ last.fn = "search_movies"
    /\ last.hit
    /\ last.failed
    /\ queries_s[last.args] = 1
    /\ Len(remote) > 0 /\ remote[1].title # None
    /\ Len(cache_s) >= 2

\* the entry C8 asks for: the year is appended exactly when the release
\* date is present and at least 4 characters long
title_with_year(movie) ==
    IF movie.release_date # None /\ Len(movie.release_date[1]) >= 4
    THEN movie.title[1] \o <<" ", "(">> \o SubSeq(movie.release_date[1], 1, 4) \o <<")">>
    ELSE movie.title[1]

\* C8: every entry of search_movies and of get_movies_from_collection is
\* the title followed by " (" + the first 4 characters of the release
\* date + ")" exactly when the release date is present and at least 4
\* characters long, and the bare title in every other case.
C8_TitleFormat ==
    (last.fn # "none" /\ ~last.failed) =>
        LET ms == IF last.fn = "search_movies"
                  THEN titled_movies(remote, 0, limit_of(last.args))
                  ELSE titled_parts(remote)
        IN  last.ret = [i \in 1..Len(ms) |-> title_with_year(ms[i])]

\* what does hold (not a claim): C8 of get_movies_from_collection
C8_CollectionOnly == last.fn = "get_movies_from_collection" => C8_TitleFormat

=============================================================================
